---- MODULE Spec2Model ----
(***************************************************************************)
(* Deployment state and versioning engine of expo-shipkit:                 *)
(*   - VersionManager (src/src/core/version/manager.ts)                    *)
(*   - DeploymentTracker (core/deployment/tracker.ts, src/unnamed/part_006)*)
(*   - the JSON file helpers (utils/fs.ts, src/unnamed/part_003)           *)
(* Strings are sequences of one-character strings, so that split('.'),     *)
(* Number(), the template literals and the /^\d+\.\d+\.\d+$/ test are      *)
(* computed the way the code computes them.                                *)
(***************************************************************************)
EXTENDS Integers, Sequences, FiniteSets, TLC

\* bump is exercised while every numeric component of the current version
\* is at most MaxNum
MaxNum == 2
\* instants at which deployments are recorded: 1..MaxClock
MaxClock == 2

VARIABLES
  appJson,          \* the file app.json (primary manifest)
  packageJson,      \* the file package.json (secondary manifest)
  deploymentsFile,  \* the file .deployments.json
  data,             \* data[i]: the field `data` of DeploymentTracker instance i
  now,              \* the instant the next new Date() reads
  ret               \* the last call: its name, arguments and outcome

vars == <<appJson, packageJson, deploymentsFile, data, now, ret>>

----------------------------------------------------------------------------
(* Strings and numbers *)

Digits == <<"0", "1", "2", "3", "4", "5", "6", "7", "8", "9">>

IsDigit(c) == \E d \in 1..Len(Digits) : Digits[d] = c

DigitVal(c) == (CHOOSE d \in 1..Len(Digits) : Digits[d] = c) - 1

\* a JavaScript number restricted to the integers and NaN
NaN == [nan |-> TRUE, n |-> 0]

Num(k) == [nan |-> FALSE, n |-> k]

\* String.prototype.split('.')
RECURSIVE SplitDot(_)
SplitDot(s) ==
  IF \A i \in 1..Len(s) : s[i] # "."
  THEN <<s>>
  ELSE LET i == CHOOSE k \in 1..Len(s) :
                  s[k] = "." /\ \A j \in 1..(k - 1) : s[j] # "."
       IN <<SubSeq(s, 1, i - 1)>> \o SplitDot(SubSeq(s, i + 1, Len(s)))

RECURSIVE DecVal(_)
DecVal(s) ==
  IF s = <<>> THEN 0
  ELSE 10 * DecVal(SubSeq(s, 1, Len(s) - 1)) + DigitVal(s[Len(s)])

\* Number(tok) for a token over digits and letters: "" is 0, a run of
\* digits its decimal value, anything else NaN
Number(tok) ==
  IF \A i \in 1..Len(tok) : IsDigit(tok[i]) THEN Num(DecVal(tok)) ELSE NaN

RECURSIVE DecStr(_)
DecStr(k) ==
  IF k < 10 THEN <<Digits[k + 1]>>
  ELSE DecStr(k \div 10) \o <<Digits[(k % 10) + 1]>>

\* `${v}` of a number
NumStr(v) == IF v.nan THEN <<"N", "a", "N">> ELSE DecStr(v.n)

\* v + 1
PlusOne(v) == IF v.nan THEN NaN ELSE Num(v.n + 1)

\* parts[i] ?? 0 of version.split('.').map(Number), i counted from 1
PartOrZero(version, i) ==
  LET toks == SplitDot(version)
  IN IF i <= Len(toks) THEN Number(toks[i]) ELSE Num(0)

parseVersion(version) ==
  <<PartOrZero(version, 1), PartOrZero(version, 2), PartOrZero(version, 3)>>

Dot == <<".">>

\* calculateNewVersion with a minor bump that keeps the patch component
calculateNewVersionKeepingPatch(currentVersion, type) ==
  LET p == parseVersion(currentVersion)
  IN CASE type = "none"  -> currentVersion
       [] type = "major" -> NumStr(PlusOne(p[1])) \o Dot \o <<"0">> \o Dot \o <<"0">>
       [] type = "minor" -> NumStr(p[1]) \o Dot \o NumStr(PlusOne(p[2])) \o Dot \o NumStr(p[3])
       [] type = "patch" -> NumStr(p[1]) \o Dot \o NumStr(p[2]) \o Dot \o NumStr(PlusOne(p[3]))
       [] OTHER          -> currentVersion

calculateNewVersion(currentVersion, type) ==
  LET p == parseVersion(currentVersion)
  IN CASE type = "none"  -> currentVersion
       [] type = "major" -> NumStr(PlusOne(p[1])) \o Dot \o <<"0">> \o Dot \o <<"0">>
       [] type = "minor" -> NumStr(p[1]) \o Dot \o NumStr(PlusOne(p[2])) \o Dot \o <<"0">>
       [] type = "patch" -> NumStr(p[1]) \o Dot \o NumStr(p[2]) \o Dot \o NumStr(PlusOne(p[3]))
       [] OTHER          -> currentVersion

\* the test without its end anchor: /^\d+\.\d+\.\d+/
MatchesXYZUnanchored(version) ==
  LET toks == SplitDot(version)
  IN /\ Len(toks) >= 3
     /\ \A i \in 1..3 : /\ Len(toks[i]) >= 1
                        /\ \A j \in 1..Len(toks[i]) : IsDigit(toks[i][j])

\* /^\d+\.\d+\.\d+$/.test(version)
MatchesXYZ(version) ==
  LET toks == SplitDot(version)
  IN /\ Len(toks) = 3
     /\ \A i \in 1..3 : /\ Len(toks[i]) >= 1
                        /\ \A j \in 1..Len(toks[i]) : IsDigit(toks[i][j])

----------------------------------------------------------------------------
(* Files *)

ZeroVersion == <<"0", ".", "0", ".", "0">>

NoFile == [kind |-> "missing"]

BadFile == [kind |-> "corrupt"]

\* app.json holding { expo: { version } }, { expo: {} } or {}
AppDoc(hasExpo, hasVersion, version) ==
  [kind |-> "json", hasExpo |-> hasExpo, hasVersion |-> hasVersion,
   version |-> version]

\* package.json holding { version } or {}
PkgDoc(hasVersion, version) ==
  [kind |-> "json", hasVersion |-> hasVersion, version |-> version]

\* readJsonFile: null (FALSE here) when the file is missing or does not parse
Readable(file) == file.kind = "json"

----------------------------------------------------------------------------
(* VersionManager *)

\* appJson?.expo?.version ?? '0.0.0' of a given content of app.json
VersionIn(file) ==
  IF Readable(file) /\ file.hasExpo /\ file.hasVersion
  THEN file.version
  ELSE ZeroVersion

getCurrentVersion == VersionIn(appJson)

BumpTypes == {"patch", "minor", "major", "none"}

\* app.json after `appJson.expo.version = version` and writeJsonFile; a
\* manifest that cannot be read is skipped
WrittenApp(file, version) ==
  IF Readable(file)
  THEN [file EXCEPT !.hasVersion = TRUE, !.version = version]
  ELSE file

\* package.json after `packageJson.version = version` and writeJsonFile
WrittenPkg(file, version) ==
  IF Readable(file)
  THEN [file EXCEPT !.hasVersion = TRUE, !.version = version]
  ELSE file

\* the manifest update that forgets package.json
WriteAppOnly(version, result) ==
  IF Readable(appJson) /\ ~appJson.hasExpo
  THEN /\ ret' = [result EXCEPT !.status = "TypeError"]
       /\ UNCHANGED <<appJson, packageJson>>
  ELSE /\ appJson' = WrittenApp(appJson, version)
       /\ packageJson' = packageJson
       /\ ret' = result

\* the manifest update that forgets app.json
WritePackageOnly(version, result) ==
  IF Readable(appJson) /\ ~appJson.hasExpo
  THEN /\ ret' = [result EXCEPT !.status = "TypeError"]
       /\ UNCHANGED <<appJson, packageJson>>
  ELSE /\ appJson' = appJson
       /\ packageJson' = WrittenPkg(packageJson, version)
       /\ ret' = result

\* the two manifest updates shared by bump and setVersion: app.json first,
\* then package.json; `appJson.expo.version = v` throws a TypeError when the
\* parsed app.json has no expo object, before anything was written
WriteBoth(version, result) ==
  IF Readable(appJson) /\ ~appJson.hasExpo
  THEN /\ ret' = [result EXCEPT !.status = "TypeError"]
       /\ UNCHANGED <<appJson, packageJson>>
  ELSE /\ appJson' = WrittenApp(appJson, version)
       /\ packageJson' = WrittenPkg(packageJson, version)
       /\ ret' = result

\* what a call keeps of the call before it
Brief(r) ==
  IF r.op = "bump"
  THEN [op |-> r.op, type |-> r.type, status |-> r.status,
        oldVersion |-> r.oldVersion]
  ELSE [op |-> r.op, status |-> r.status]

Small(version) ==
  \A i \in 1..3 : parseVersion(version)[i].nan \/ parseVersion(version)[i].n <= MaxNum

\* bump that rewrites the manifests whatever the type
bumpAlwaysWriting(type) ==
  LET oldVersion == getCurrentVersion
      newVersion == calculateNewVersion(oldVersion, type)
      result == [op |-> "bump", type |-> type, status |-> "ok",
                 oldVersion |-> oldVersion, newVersion |-> newVersion,
                 preApp |-> appJson, prePkg |-> packageJson,
                 prev |-> Brief(ret)]
  IN /\ Small(oldVersion)
     /\ WriteBoth(newVersion, result)
     /\ UNCHANGED <<deploymentsFile, data, now>>

bump(type) ==
  LET oldVersion == getCurrentVersion
      newVersion == calculateNewVersion(oldVersion, type)
      result == [op |-> "bump", type |-> type, status |-> "ok",
                 oldVersion |-> oldVersion, newVersion |-> newVersion,
                 preApp |-> appJson, prePkg |-> packageJson,
                 prev |-> Brief(ret)]
  IN /\ Small(oldVersion)
     /\ IF type = "none"
        THEN /\ ret' = [result EXCEPT !.newVersion = oldVersion]
             /\ UNCHANGED <<appJson, packageJson>>
        ELSE WriteBoth(newVersion, result)
     /\ UNCHANGED <<deploymentsFile, data, now>>

setVersion(version) ==
  LET result == [op |-> "setVersion", version |-> version, status |-> "ok",
                 newVersion |-> version,
                 preApp |-> appJson, prePkg |-> packageJson]
  IN /\ IF ~MatchesXYZ(version)
        THEN /\ ret' = [result EXCEPT !.status = "InvalidFormat"]
             /\ UNCHANGED <<appJson, packageJson>>
        ELSE WriteBoth(version, result)
     /\ UNCHANGED <<deploymentsFile, data, now>>

----------------------------------------------------------------------------
(* compareVersions, isNewerVersion *)

\* x < y of two numbers: false when either is NaN
Less(x, y) == ~x.nan /\ ~y.nan /\ x.n < y.n

\* the loop of compareVersions from component i on, over two components only
RECURSIVE CompareTwoFrom(_, _, _)
CompareTwoFrom(a, b, i) ==
  IF i > 2 THEN 0
  ELSE LET aVal == PartOrZero(a, i)
           bVal == PartOrZero(b, i)
       IN IF Less(aVal, bVal) THEN -1
          ELSE IF Less(bVal, aVal) THEN 1
          ELSE CompareTwoFrom(a, b, i + 1)

compareVersionsTwoParts(a, b) == CompareTwoFrom(a, b, 1)

\* the loop of compareVersions with `aVal >= bVal` for `aVal > bVal`
RECURSIVE CompareGeFrom(_, _, _)
CompareGeFrom(a, b, i) ==
  IF i > 3 THEN 0
  ELSE LET aVal == PartOrZero(a, i)
           bVal == PartOrZero(b, i)
       IN IF Less(aVal, bVal) THEN -1
          ELSE IF ~aVal.nan /\ ~bVal.nan THEN 1
          ELSE CompareGeFrom(a, b, i + 1)

compareVersionsGe(a, b) == CompareGeFrom(a, b, 1)

\* the loop of compareVersions from component i on (i counted from 1)
RECURSIVE CompareFrom(_, _, _)
CompareFrom(a, b, i) ==
  IF i > 3 THEN 0
  ELSE LET aVal == PartOrZero(a, i)
           bVal == PartOrZero(b, i)
       IN IF Less(aVal, bVal) THEN -1
          ELSE IF Less(bVal, aVal) THEN 1
          ELSE CompareFrom(a, b, i + 1)

compareVersions(a, b) == CompareFrom(a, b, 1)

isNewerVersion(a, b) == compareVersions(a, b) > 0

CompareCall(a, b) ==
  /\ ret' = [op |-> "compareVersions", a |-> a, b |-> b, status |-> "ok",
             value |-> compareVersions(a, b)]
  /\ UNCHANGED <<appJson, packageJson, deploymentsFile, data, now>>

IsNewerCall(a, b) ==
  /\ ret' = [op |-> "isNewerVersion", a |-> a, b |-> b, status |-> "ok",
             value |-> isNewerVersion(a, b)]
  /\ UNCHANGED <<appJson, packageJson, deploymentsFile, data, now>>

----------------------------------------------------------------------------
(* DeploymentTracker *)

Platforms == {"ios", "android"}

Profiles == {"preview", "production"}

\* the version strings callers pass to the ledger
VersionKeys == {<<"1", ".", "0", ".", "0">>, <<"2", ".", "0", ".", "0">>}

\* keys and values of the configuration snapshots callers pass
ConfigKeys == {"minSdkVersion", "targetSdkVersion"}

Snapshots == {[k \in {} |-> "24"],
              [k \in {"minSdkVersion"} |-> "24"],
              [k \in ConfigKeys |-> "35"]}

Trackers == {1, 2}

Null == "null"

\* new Date().toISOString() at instant t: a non-empty string
ISOString(t) == "T" \o ToString(t)

createEmptyDeploymentRecord ==
  [ios |-> [preview |-> Null, production |-> Null],
   android |-> [preview |-> Null, production |-> Null]]

\* a DeploymentHistory as parsed JSON; `versions` keeps the insertion order
\* of its keys; hasVersions / hasLastConfig are FALSE for a document that
\* lacks the field
History(hasVersions, versions, hasLastConfig, lastConfig) ==
  [hasVersions |-> hasVersions, versions |-> versions,
   hasLastConfig |-> hasLastConfig, lastConfig |-> lastConfig]

createEmptyDeploymentHistory ==
  History(TRUE, <<>>, TRUE, [p \in Platforms |-> [k \in {} |-> "24"]])

\* fs.writeFileSync(filePath, JSON.stringify(data, null, 2) + '\n')
writeJsonFile(h) == [kind |-> "json", doc |-> h]

\* readJsonFile(deploymentsPath) of a parsable file
readJsonFile(file) == file.doc

fileExists(file) == file.kind # "missing"

\* load falling back to a bare object `{}` instead of the empty history
loadBare ==
  IF Readable(deploymentsFile) THEN readJsonFile(deploymentsFile)
  ELSE History(FALSE, <<>>, FALSE, [p \in Platforms |-> [k \in {} |-> "24"]])

load ==
  IF ~fileExists(deploymentsFile) THEN createEmptyDeploymentHistory
  ELSE IF Readable(deploymentsFile) THEN readJsonFile(deploymentsFile)
  ELSE createEmptyDeploymentHistory

\* versions[version] is present
HasVersion(h, version) ==
  \E i \in 1..Len(h.versions) : h.versions[i].version = version

IndexOf(h, version) ==
  CHOOSE i \in 1..Len(h.versions) : h.versions[i].version = version

\* status[platform][profile], undefined read as null
Cell(record, platform, profile) ==
  IF profile \in DOMAIN record[platform] THEN record[platform][profile] ELSE Null

\* this.data.versions[version] ?? createEmptyDeploymentRecord()
StatusIn(h, version) ==
  IF HasVersion(h, version) THEN h.versions[IndexOf(h, version)].record
  ELSE createEmptyDeploymentRecord

\* the live instance i and its history
Live(i) == data[i].live

Hist(i) == data[i].hist

NotLive == [live |-> FALSE, hist |-> createEmptyDeploymentHistory]

\* what a construction keeps of the call before it: its name and, after an
\* interrupted save, whether the lost history tracked any version
Before(r) ==
  [op |-> r.op,
   tracked |-> IF r.op = "crash" THEN Len(r.preHist.versions) > 0 ELSE FALSE]

\* new DeploymentTracker(projectRoot)
Construct(i) ==
  /\ data' = [data EXCEPT ![i] = [live |-> TRUE, hist |-> load]]
  /\ ret' = [op |-> "new", tracker |-> i, status |-> "ok",
             preFile |-> deploymentsFile, prev |-> Before(ret)]
  /\ UNCHANGED <<appJson, packageJson, deploymentsFile, now>>

\* initialize that writes the empty document and keeps this.data
initializeFileOnly(i) ==
  /\ Live(i)
  /\ data' = data
  /\ deploymentsFile' = writeJsonFile(createEmptyDeploymentHistory)
  /\ ret' = [op |-> "initialize", tracker |-> i, status |-> "ok",
             preHist |-> Hist(i), preFile |-> deploymentsFile]
  /\ UNCHANGED <<appJson, packageJson, now>>

initialize(i) ==
  /\ Live(i)
  /\ data' = [data EXCEPT ![i].hist = createEmptyDeploymentHistory]
  /\ deploymentsFile' = writeJsonFile(createEmptyDeploymentHistory)
  /\ ret' = [op |-> "initialize", tracker |-> i, status |-> "ok",
             preHist |-> Hist(i), preFile |-> deploymentsFile]
  /\ UNCHANGED <<appJson, packageJson, now>>

\* the process dies inside save(), in the middle of fs.writeFileSync: the
\* document is left truncated (unparsable) and the instance is gone
saveInterrupted(i) ==
  /\ Live(i)
  /\ deploymentsFile' = BadFile
  /\ data' = [data EXCEPT ![i] = NotLive]
  /\ ret' = [op |-> "crash", tracker |-> i, status |-> "crashed",
             preHist |-> Hist(i)]
  /\ UNCHANGED <<appJson, packageJson, now>>

\* exists()
exists(i) ==
  /\ Live(i)
  /\ ret' = [op |-> "exists", tracker |-> i, status |-> "ok",
             value |-> fileExists(deploymentsFile)]
  /\ UNCHANGED <<appJson, packageJson, deploymentsFile, data, now>>

\* updateStatus assigning the platform a fresh status object that holds the
\* one profile
RecordedOverwriting(h, version, platform, profile, at) ==
  LET vs == IF HasVersion(h, version) THEN h.versions
            ELSE Append(h.versions,
                        [version |-> version,
                         record |-> createEmptyDeploymentRecord])
      i == CHOOSE k \in 1..Len(vs) : vs[k].version = version
      written == (profile :> at) @@ createEmptyDeploymentRecord[platform]
  IN [h EXCEPT !.versions =
        [vs EXCEPT ![i].record = [vs[i].record EXCEPT ![platform] = written]]]

\* updateStatus assigning a fresh versions map that holds the one version
RecordedAlone(h, version, platform, profile, at) ==
  LET record == StatusIn(h, version)
      written == (profile :> at) @@ record[platform]
  IN [h EXCEPT !.versions =
        <<[version |-> version,
           record |-> [record EXCEPT ![platform] = written]]>>]

\* the history after lines 96-100 of updateStatus
Recorded(h, version, platform, profile, at) ==
  LET vs == IF HasVersion(h, version) THEN h.versions
            ELSE Append(h.versions,
                        [version |-> version,
                         record |-> createEmptyDeploymentRecord])
      i == CHOOSE k \in 1..Len(vs) : vs[k].version = version
      status == vs[i].record[platform]
      written == (profile :> at) @@ status
  IN [h EXCEPT !.versions =
        [vs EXCEPT ![i].record = [vs[i].record EXCEPT ![platform] = written]]]

\* updateStatus that reloads the document before it records
updateStatusMerging(i, version, platform, profile) ==
  LET result == [op |-> "updateStatus", tracker |-> i, version |-> version,
                 platform |-> platform, profile |-> profile, status |-> "ok",
                 at |-> ISOString(now),
                 preHist |-> Hist(i), preFile |-> deploymentsFile]
  IN /\ Live(i)
     /\ now <= MaxClock
     /\ IF ~load.hasVersions
        THEN /\ ret' = [result EXCEPT !.status = "TypeError"]
             /\ UNCHANGED <<data, deploymentsFile, now>>
        ELSE LET h == Recorded(load, version, platform, profile,
                               ISOString(now))
             IN /\ data' = [data EXCEPT ![i].hist = h]
                /\ deploymentsFile' = writeJsonFile(h)
                /\ now' = now + 1
                /\ ret' = result
     /\ UNCHANGED <<appJson, packageJson>>

updateStatus(i, version, platform, profile) ==
  LET result == [op |-> "updateStatus", tracker |-> i, version |-> version,
                 platform |-> platform, profile |-> profile, status |-> "ok",
                 at |-> ISOString(now),
                 preHist |-> Hist(i), preFile |-> deploymentsFile]
  IN /\ Live(i)
     /\ now <= MaxClock
     /\ IF ~Hist(i).hasVersions
        THEN /\ ret' = [result EXCEPT !.status = "TypeError"]
             /\ UNCHANGED <<data, deploymentsFile, now>>
        ELSE LET h == Recorded(Hist(i), version, platform, profile,
                               ISOString(now))
             IN /\ data' = [data EXCEPT ![i].hist = h]
                /\ deploymentsFile' = writeJsonFile(h)
                /\ now' = now + 1
                /\ ret' = result
     /\ UNCHANGED <<appJson, packageJson>>

\* updateLastConfig without its save()
updateLastConfigUnsaved(i, platform, config) ==
  LET result == [op |-> "updateLastConfig", tracker |-> i,
                 platform |-> platform, config |-> config, status |-> "ok",
                 preHist |-> Hist(i)]
  IN /\ Live(i)
     /\ IF ~Hist(i).hasLastConfig
        THEN /\ ret' = [result EXCEPT !.status = "TypeError"]
             /\ UNCHANGED <<data, deploymentsFile>>
        ELSE LET h == [Hist(i) EXCEPT !.lastConfig =
                         (platform :> config) @@ Hist(i).lastConfig]
             IN /\ data' = [data EXCEPT ![i].hist = h]
                /\ deploymentsFile' = deploymentsFile
                /\ ret' = result
     /\ UNCHANGED <<appJson, packageJson, now>>

\* updateLastConfig spreading the new snapshot over the stored one
updateLastConfigMerging(i, platform, config) ==
  LET result == [op |-> "updateLastConfig", tracker |-> i,
                 platform |-> platform, config |-> config, status |-> "ok",
                 preHist |-> Hist(i)]
  IN /\ Live(i)
     /\ IF ~Hist(i).hasLastConfig
        THEN /\ ret' = [result EXCEPT !.status = "TypeError"]
             /\ UNCHANGED <<data, deploymentsFile>>
        ELSE LET h == [Hist(i) EXCEPT !.lastConfig =
                         (platform :> (config @@ Hist(i).lastConfig[platform]))
                         @@ Hist(i).lastConfig]
             IN /\ data' = [data EXCEPT ![i].hist = h]
                /\ deploymentsFile' = writeJsonFile(h)
                /\ ret' = result
     /\ UNCHANGED <<appJson, packageJson, now>>

updateLastConfig(i, platform, config) ==
  LET result == [op |-> "updateLastConfig", tracker |-> i,
                 platform |-> platform, config |-> config, status |-> "ok",
                 preHist |-> Hist(i)]
  IN /\ Live(i)
     /\ IF ~Hist(i).hasLastConfig
        THEN /\ ret' = [result EXCEPT !.status = "TypeError"]
             /\ UNCHANGED <<data, deploymentsFile>>
        ELSE LET h == [Hist(i) EXCEPT !.lastConfig =
                         (platform :> config) @@ Hist(i).lastConfig]
             IN /\ data' = [data EXCEPT ![i].hist = h]
                /\ deploymentsFile' = writeJsonFile(h)
                /\ ret' = result
     /\ UNCHANGED <<appJson, packageJson, now>>

\* this.data.lastConfig[platform] ?? {}
LastConfigIn(h, platform) ==
  IF platform \in DOMAIN h.lastConfig THEN h.lastConfig[platform]
  ELSE [k \in {} |-> "24"]

\* getMissingPlatforms read as a completeness check: every platform without
\* a timestamp is missing
MissingInAny(h, version, profile) ==
  LET status == StatusIn(h, version)
      deployed(p) == Cell(status, p, profile) # Null
  IN (IF ~deployed("ios") THEN <<"ios">> ELSE <<>>)
     \o (IF ~deployed("android") THEN <<"android">> ELSE <<>>)

\* the platforms pushed by getMissingPlatforms, in push order
MissingIn(h, version, profile) ==
  LET status == StatusIn(h, version)
      deployed(p) == Cell(status, p, profile) # Null
  IN (IF ~deployed("ios") /\ deployed("android") THEN <<"ios">> ELSE <<>>)
     \o (IF ~deployed("android") /\ deployed("ios") THEN <<"android">> ELSE <<>>)

\* getVersionStatus that stores the empty record it returns
getVersionStatusStoring(i, version) ==
  /\ Live(i)
  /\ IF Hist(i).hasVersions
     THEN /\ ret' = [op |-> "getVersionStatus", tracker |-> i,
                     version |-> version, status |-> "ok",
                     value |-> StatusIn(Hist(i), version),
                     preHist |-> Hist(i), preFile |-> deploymentsFile]
          /\ data' = IF HasVersion(Hist(i), version) THEN data
                     ELSE [data EXCEPT ![i].hist.versions =
                             Append(@, [version |-> version,
                                        record |-> createEmptyDeploymentRecord])]
     ELSE /\ ret' = [op |-> "getVersionStatus", tracker |-> i,
                     version |-> version, status |-> "TypeError"]
          /\ data' = data
  /\ UNCHANGED <<appJson, packageJson, deploymentsFile, now>>

getVersionStatus(i, version) ==
  /\ Live(i)
  /\ ret' = IF Hist(i).hasVersions
            THEN [op |-> "getVersionStatus", tracker |-> i,
                  version |-> version, status |-> "ok",
                  value |-> StatusIn(Hist(i), version),
                  preHist |-> Hist(i), preFile |-> deploymentsFile]
            ELSE [op |-> "getVersionStatus", tracker |-> i,
                  version |-> version, status |-> "TypeError"]
  /\ UNCHANGED <<appJson, packageJson, deploymentsFile, data, now>>

getMissingPlatforms(i, version, profile) ==
  /\ Live(i)
  /\ ret' = IF Hist(i).hasVersions
            THEN [op |-> "getMissingPlatforms", tracker |-> i,
                  version |-> version, profile |-> profile, status |-> "ok",
                  value |-> MissingIn(Hist(i), version, profile)]
            ELSE [op |-> "getMissingPlatforms", tracker |-> i,
                  version |-> version, profile |-> profile,
                  status |-> "TypeError"]
  /\ UNCHANGED <<appJson, packageJson, deploymentsFile, data, now>>

getLastConfig(i, platform) ==
  /\ Live(i)
  /\ ret' = IF Hist(i).hasLastConfig
            THEN [op |-> "getLastConfig", tracker |-> i,
                  platform |-> platform, status |-> "ok",
                  value |-> LastConfigIn(Hist(i), platform)]
            ELSE [op |-> "getLastConfig", tracker |-> i,
                  platform |-> platform, status |-> "TypeError"]
  /\ UNCHANGED <<appJson, packageJson, deploymentsFile, data, now>>

\* a !== b of two numbers: NaN differs from everything
Differs(x, y) == x.nan \/ y.nan \/ x.n # y.n

\* the comparator of getAllVersions with the operands of the subtraction
\* swapped (ascending)
RECURSIVE SortCmpAscendingFrom(_, _, _)
SortCmpAscendingFrom(a, b, i) ==
  IF i > 3 THEN 0
  ELSE LET aVal == PartOrZero(a, i)
           bVal == PartOrZero(b, i)
       IN IF Differs(aVal, bVal)
          THEN (IF aVal.nan \/ bVal.nan THEN 0 ELSE aVal.n - bVal.n)
          ELSE SortCmpAscendingFrom(a, b, i + 1)

SortCmpAscending(a, b) == SortCmpAscendingFrom(a, b, 1)

\* the comparator of getAllVersions from component i on: the first pair of
\* components that differ gives bVal - aVal; a NaN difference counts as 0
\* in Array.prototype.sort
RECURSIVE SortCmpFrom(_, _, _)
SortCmpFrom(a, b, i) ==
  IF i > 3 THEN 0
  ELSE LET aVal == PartOrZero(a, i)
           bVal == PartOrZero(b, i)
       IN IF Differs(aVal, bVal)
          THEN (IF aVal.nan \/ bVal.nan THEN 0 ELSE bVal.n - aVal.n)
          ELSE SortCmpFrom(a, b, i + 1)

SortCmp(a, b) == SortCmpFrom(a, b, 1)

\* x placed into the sorted t behind every element that does not sort
\* after it
InsertSorted(x, t) ==
  LET later == {j \in 1..Len(t) : SortCmp(t[j], x) > 0}
      at == IF later = {} THEN Len(t) + 1
            ELSE CHOOSE j \in later : \A k \in later : j <= k
  IN SubSeq(t, 1, at - 1) \o <<x>> \o SubSeq(t, at, Len(t))

\* Array.prototype.sort(comparator): a stable sort
RECURSIVE SortKeys(_)
SortKeys(keys) ==
  IF keys = <<>> THEN <<>>
  ELSE InsertSorted(keys[Len(keys)], SortKeys(SubSeq(keys, 1, Len(keys) - 1)))

\* Object.keys(this.data.versions): the keys in insertion order (version
\* strings with a dot are not array indices)
KeysOf(h) == [k \in 1..Len(h.versions) |-> h.versions[k].version]

AllVersionsIn(h) == SortKeys(KeysOf(h))

getAllVersions(i) ==
  /\ Live(i)
  /\ ret' = IF Hist(i).hasVersions
            THEN [op |-> "getAllVersions", tracker |-> i, status |-> "ok",
                  value |-> AllVersionsIn(Hist(i))]
            ELSE [op |-> "getAllVersions", tracker |-> i,
                  status |-> "TypeError"]
  /\ UNCHANGED <<appJson, packageJson, deploymentsFile, data, now>>

OtherPlatform(platform) == IF platform = "ios" THEN "android" ELSE "ios"

\* formatDate: new Date(isoString).toLocaleString(), the local rendering of
\* the instant
formatDate(isoString) ==
  IF isoString = Null THEN "Not deployed" ELSE "local " \o isoString

\* a SyncWarning about `platform`: `${platform} ${profile} ${wording}
\* ${formatDate(at)}`
Warning(wording, at, platform, profile) ==
  [message |-> platform \o " " \o profile \o " " \o wording \o " "
               \o formatDate(at),
   platform |-> platform, profile |-> profile]

\* checkSyncWarnings with the sibling warning pushed whenever the other
\* platform was deployed
SyncWarningsInLoose(h, version, platform, profile) ==
  LET status == StatusIn(h, version)
      otherDeployedAt == Cell(status, OtherPlatform(platform), profile)
      thisDeployedAt == Cell(status, platform, profile)
  IN (IF otherDeployedAt # Null
      THEN <<Warning("was deployed on", otherDeployedAt,
                     OtherPlatform(platform), profile)>>
      ELSE <<>>)
     \o (IF thisDeployedAt # Null
         THEN <<Warning("already deployed on", thisDeployedAt,
                        platform, profile)>>
         ELSE <<>>)

\* checkSyncWarnings without its re-deployment warning
SyncWarningsInSiblingOnly(h, version, platform, profile) ==
  LET status == StatusIn(h, version)
      otherDeployedAt == Cell(status, OtherPlatform(platform), profile)
      thisDeployedAt == Cell(status, platform, profile)
  IN IF otherDeployedAt # Null /\ thisDeployedAt = Null
     THEN <<Warning("was deployed on", otherDeployedAt,
                    OtherPlatform(platform), profile)>>
     ELSE <<>>

\* the warnings pushed by checkSyncWarnings, in push order
SyncWarningsIn(h, version, platform, profile) ==
  LET status == StatusIn(h, version)
      otherDeployedAt == Cell(status, OtherPlatform(platform), profile)
      thisDeployedAt == Cell(status, platform, profile)
  IN (IF otherDeployedAt # Null /\ thisDeployedAt = Null
      THEN <<Warning("was deployed on", otherDeployedAt,
                     OtherPlatform(platform), profile)>>
      ELSE <<>>)
     \o (IF thisDeployedAt # Null
         THEN <<Warning("already deployed on", thisDeployedAt,
                        platform, profile)>>
         ELSE <<>>)

checkSyncWarnings(i, version, platform, profile) ==
  /\ Live(i)
  /\ ret' = IF Hist(i).hasVersions
            THEN [op |-> "checkSyncWarnings", tracker |-> i,
                  version |-> version, platform |-> platform,
                  profile |-> profile, status |-> "ok",
                  value |-> SyncWarningsIn(Hist(i), version, platform, profile)]
            ELSE [op |-> "checkSyncWarnings", tracker |-> i,
                  version |-> version, platform |-> platform,
                  profile |-> profile, status |-> "TypeError"]
  /\ UNCHANGED <<appJson, packageJson, deploymentsFile, data, now>>

----------------------------------------------------------------------------
(* Config detector: readCurrentPlatformConfig, detectConfigChanges,
   hasConfigChanged, updateTrackedConfig *)

\* JSON values of a plugin section: numbers and strings by their text, and
\* one array by its text
ObjectValues == {"[\"https://maven.example\"]"}

\* x === y of a value just parsed and a value parsed before: an array is
\* identical only to itself
StrictEquals(x, y) == x = y /\ x \notin ObjectValues

Pair(key, value) == [key |-> key, value |-> value]

\* a parsed plugin section as a map; pairs are in the document's key order
AsMap(section) ==
  [k \in {section[j].key : j \in 1..Len(section)} |->
     section[CHOOSE j \in 1..Len(section) : section[j].key = k].value]

EmptyMap == [k \in {} |-> "24"]

\* app.json with an expo-build-properties entry in expo.plugins: `bare` is
\* the entry without its configuration object, `sections` maps the platforms
\* the configuration object names to their sections
WithPlugin(bare, sections) ==
  [kind |-> "json", hasExpo |-> TRUE, hasVersion |-> TRUE,
   version |-> <<"1", ".", "0", ".", "0">>,
   plugin |-> [bare |-> bare, sections |-> sections]]

DEFAULT_CRITICAL_CONFIG ==
  [android |-> <<"minSdkVersion", "targetSdkVersion", "compileSdkVersion">>,
   ios |-> <<"deploymentTarget">>]

\* the criticalKeys argument: a list, or undefined
Given(keys) == [given |-> TRUE, keys |-> keys]

Undefined == [given |-> FALSE]

\* criticalKeys ?? DEFAULT_CRITICAL_CONFIG[platform]
KeysFor(platform, criticalKeys) ==
  IF criticalKeys.given THEN criticalKeys.keys
  ELSE DEFAULT_CRITICAL_CONFIG[platform]

\* (platform === 'android' ? pluginConfig.android : pluginConfig.ios) ?? {}
\* of a given content of app.json; {} when an early return is taken
PlatformConfigIn(file, platform) ==
  IF ~Readable(file) THEN EmptyMap
  ELSE IF ~file.hasExpo THEN EmptyMap
  ELSE IF "plugin" \notin DOMAIN file THEN EmptyMap
  ELSE IF file.plugin.bare THEN EmptyMap
  ELSE IF platform \notin DOMAIN file.plugin.sections THEN EmptyMap
  ELSE AsMap(file.plugin.sections[platform])

\* readCurrentPlatformConfig copying the whole platform section
CurrentConfigInWhole(file, platform, criticalKeys) ==
  PlatformConfigIn(file, platform)

\* readCurrentPlatformConfig over a given content of app.json
CurrentConfigIn(file, platform, criticalKeys) ==
  LET platformConfig == PlatformConfigIn(file, platform)
      keys == KeysFor(platform, criticalKeys)
  IN [k \in {keys[j] : j \in 1..Len(keys)} \cap DOMAIN platformConfig |->
        platformConfig[k]]

readCurrentPlatformConfig(platform, criticalKeys) ==
  /\ ret' = [op |-> "readCurrentPlatformConfig", platform |-> platform,
             criticalKeys |-> criticalKeys, status |-> "ok",
             value |-> CurrentConfigIn(appJson, platform, criticalKeys)]
  /\ UNCHANGED <<appJson, packageJson, deploymentsFile, data, now>>

Unset == "unset"

\* last !== undefined ? last : 'unset'
OrUnset(config, key) == IF key \in DOMAIN config THEN config[key] ELSE Unset

\* current !== last for one key
KeyChanged(currentConfig, lastConfig, key) ==
  IF key \in DOMAIN currentConfig /\ key \in DOMAIN lastConfig
  THEN ~StrictEquals(currentConfig[key], lastConfig[key])
  ELSE key \in DOMAIN currentConfig \/ key \in DOMAIN lastConfig

ConfigChange(key, from, to) == [key |-> key, from |-> from, to |-> to]

\* the loop of detectConfigChanges over keys[j..]
RECURSIVE ChangesFrom(_, _, _, _)
ChangesFrom(currentConfig, lastConfig, keys, j) ==
  IF j > Len(keys) THEN <<>>
  ELSE (IF KeyChanged(currentConfig, lastConfig, keys[j])
        THEN <<ConfigChange(keys[j], OrUnset(lastConfig, keys[j]),
                            OrUnset(currentConfig, keys[j]))>>
        ELSE <<>>)
       \o ChangesFrom(currentConfig, lastConfig, keys, j + 1)

\* the critical keys in the order the platform section lists them
RECURSIVE ListedIn(_, _, _)
ListedIn(section, keys, j) ==
  IF j > Len(section) THEN <<>>
  ELSE (IF \E k \in 1..Len(keys) : keys[k] = section[j].key
        THEN <<section[j].key>> ELSE <<>>)
       \o ListedIn(section, keys, j + 1)

\* detectConfigChanges iterating over the keys of the current configuration
ChangesInSourceOrder(h, file, platform, criticalKeys) ==
  LET present == Readable(file) /\ file.hasExpo /\ "plugin" \in DOMAIN file
      section == IF present /\ platform \in DOMAIN file.plugin.sections
                 THEN file.plugin.sections[platform] ELSE <<>>
  IN ChangesFrom(CurrentConfigIn(file, platform, criticalKeys),
                 LastConfigIn(h, platform),
                 ListedIn(section, KeysFor(platform, criticalKeys), 1), 1)

\* detectConfigChanges of a given history and content of app.json
ChangesIn(h, file, platform, criticalKeys) ==
  ChangesFrom(CurrentConfigIn(file, platform, criticalKeys),
              LastConfigIn(h, platform),
              KeysFor(platform, criticalKeys), 1)

\* what a detector call keeps of the call before it: the arguments of an
\* updateTrackedConfig
Prior(r) ==
  IF r.op = "updateTrackedConfig"
  THEN [op |-> r.op, platform |-> r.platform, criticalKeys |-> r.criticalKeys,
        status |-> r.status]
  ELSE [op |-> "other"]

\* detectConfigChanges that stores the configuration it has just read
detectConfigChangesCommitting(i, platform, criticalKeys) ==
  LET result == [op |-> "detectConfigChanges", tracker |-> i,
                 platform |-> platform, criticalKeys |-> criticalKeys,
                 status |-> "ok", prev |-> Prior(ret)]
  IN /\ Live(i)
     /\ IF Hist(i).hasLastConfig
        THEN /\ ret' = result @@
                  [value |-> ChangesIn(Hist(i), appJson, platform, criticalKeys)]
             /\ data' = [data EXCEPT ![i].hist.lastConfig =
                           (platform :> CurrentConfigIn(appJson, platform,
                                                        criticalKeys)) @@ @]
        ELSE /\ ret' = [result EXCEPT !.status = "TypeError"]
             /\ data' = data
     /\ UNCHANGED <<appJson, packageJson, deploymentsFile, now>>

detectConfigChanges(i, platform, criticalKeys) ==
  LET result == [op |-> "detectConfigChanges", tracker |-> i,
                 platform |-> platform, criticalKeys |-> criticalKeys,
                 status |-> "ok", prev |-> Prior(ret)]
  IN /\ Live(i)
     /\ ret' = IF Hist(i).hasLastConfig
               THEN result @@
                    [value |-> ChangesIn(Hist(i), appJson, platform, criticalKeys)]
               ELSE [result EXCEPT !.status = "TypeError"]
     /\ UNCHANGED <<appJson, packageJson, deploymentsFile, data, now>>

hasConfigChanged(i, platform, criticalKeys) ==
  LET result == [op |-> "hasConfigChanged", tracker |-> i,
                 platform |-> platform, criticalKeys |-> criticalKeys,
                 status |-> "ok", prev |-> Prior(ret)]
  IN /\ Live(i)
     /\ ret' = IF Hist(i).hasLastConfig
               THEN result @@
                    [value |-> Len(ChangesIn(Hist(i), appJson, platform,
                                             criticalKeys)) > 0]
               ELSE [result EXCEPT !.status = "TypeError"]
     /\ UNCHANGED <<appJson, packageJson, deploymentsFile, data, now>>

\* the history after updateLastConfig(platform, config)
WithLastConfig(h, platform, config) ==
  [h EXCEPT !.lastConfig = (platform :> config) @@ h.lastConfig]

updateTrackedConfig(i, platform, criticalKeys) ==
  LET currentConfig == CurrentConfigIn(appJson, platform, criticalKeys)
      result == [op |-> "updateTrackedConfig", tracker |-> i,
                 platform |-> platform, criticalKeys |-> criticalKeys,
                 status |-> "ok", preHist |-> Hist(i)]
  IN /\ Live(i)
     /\ IF ~Hist(i).hasLastConfig
        THEN /\ ret' = [result EXCEPT !.status = "TypeError"]
             /\ UNCHANGED <<data, deploymentsFile>>
        ELSE LET h == WithLastConfig(Hist(i), platform, currentConfig)
             IN /\ data' = [data EXCEPT ![i].hist = h]
                /\ deploymentsFile' = writeJsonFile(h)
                /\ ret' = result
     /\ UNCHANGED <<appJson, packageJson, now>>

----------------------------------------------------------------------------
(* deploy command: version bump, then build, record and snapshot per
   platform *)

Event(what, platform) == [what |-> what, platform |-> platform]

\* a deploy run is between two of its awaited steps
Running == ret.op = "deploy" /\ ret.status = "running"

\* the run after the loop body of platforms[index] is over
Advanced(run) ==
  IF run.index = Len(run.platforms)
  THEN [run EXCEPT !.status = "ok"]
  ELSE [run EXCEPT !.index = run.index + 1,
                   !.phase = IF run.shouldBuild THEN "build" ELSE "submit"]

\* the action up to the build loop: the tracker is constructed, the target
\* version computed and, when building with a bump, the manifests rewritten;
\* an exception of bump ends the run
deployStart(i, versionBump, platforms, profile, action) ==
  LET currentVersion == getCurrentVersion
      shouldBuild == action \in {"build", "build+submit"}
      shouldSubmit == action \in {"build+submit", "submit"}
      bumps == shouldBuild /\ versionBump # "none"
      targetVersion == IF bumps
                       THEN calculateNewVersion(currentVersion, versionBump)
                       ELSE currentVersion
      throws == bumps /\ Readable(appJson) /\ ~appJson.hasExpo
  IN /\ ~Running
     /\ now <= MaxClock
     /\ Small(currentVersion)
     /\ data' = [data EXCEPT ![i] = [live |-> TRUE, hist |-> load]]
     /\ appJson' = IF bumps /\ ~throws
                   THEN WrittenApp(appJson, targetVersion) ELSE appJson
     /\ packageJson' = IF bumps /\ ~throws
                       THEN WrittenPkg(packageJson, targetVersion)
                       ELSE packageJson
     /\ ret' = [op |-> "deploy", tracker |-> i,
                status |-> IF throws THEN "failed" ELSE "running",
                platforms |-> platforms, profile |-> profile,
                shouldBuild |-> shouldBuild, shouldSubmit |-> shouldSubmit,
                targetVersion |-> targetVersion,
                index |-> 1,
                phase |-> IF shouldBuild THEN "build" ELSE "submit",
                preHist |-> load, log |-> <<>>]
     /\ UNCHANGED <<deploymentsFile, now>>

\* the loop body with tracker.updateStatus and updateTrackedConfig moved
\* in front of the test of buildCode
deployBuildRecordingFirst(buildCode) ==
  LET i == ret.tracker
      platform == ret.platforms[ret.index]
      recorded == Recorded(Hist(i), ret.targetVersion, platform, ret.profile,
                           ISOString(now))
      h == WithLastConfig(recorded, platform,
                          CurrentConfigIn(appJson, platform, Undefined))
  IN /\ Running /\ ret.phase = "build"
     /\ now <= MaxClock
     /\ data' = [data EXCEPT ![i].hist = h]
     /\ deploymentsFile' = writeJsonFile(h)
     /\ now' = now + 1
     /\ IF buildCode # 0
        THEN ret' = [ret EXCEPT !.status = "failed",
                                !.log = Append(@, Event("build failed", platform))]
        ELSE LET built == [ret EXCEPT !.log =
                             @ \o <<Event("build succeeded", platform),
                                    Event("recorded", platform),
                                    Event("committed", platform)>>]
             IN ret' = IF ret.shouldSubmit
                       THEN [built EXCEPT !.phase = "submit"]
                       ELSE Advanced(built)
     /\ UNCHANGED <<appJson, packageJson>>

\* runBuild returned for platforms[index]: a non-zero code throws and ends
\* the run; otherwise tracker.updateStatus, then updateTrackedConfig with
\* the configured (default) critical keys
deployBuild(buildCode) ==
  LET i == ret.tracker
      platform == ret.platforms[ret.index]
  IN /\ Running /\ ret.phase = "build"
     /\ IF buildCode # 0
        THEN /\ ret' = [ret EXCEPT !.status = "failed",
                                   !.log = Append(@, Event("build failed", platform))]
             /\ UNCHANGED <<data, deploymentsFile, now>>
        ELSE LET recorded == Recorded(Hist(i), ret.targetVersion, platform,
                                      ret.profile, ISOString(now))
                 h == WithLastConfig(recorded, platform,
                                     CurrentConfigIn(appJson, platform, Undefined))
                 built == [ret EXCEPT !.log =
                             @ \o <<Event("build succeeded", platform),
                                    Event("recorded", platform),
                                    Event("committed", platform)>>]
             IN /\ now <= MaxClock
                /\ data' = [data EXCEPT ![i].hist = h]
                /\ deploymentsFile' = writeJsonFile(h)
                /\ now' = now + 1
                /\ ret' = IF ret.shouldSubmit
                          THEN [built EXCEPT !.phase = "submit"]
                          ELSE Advanced(built)
     /\ UNCHANGED <<appJson, packageJson>>

\* runSubmit returned for platforms[index]: a non-zero code throws and ends
\* the run
deploySubmit(submitCode) ==
  LET platform == ret.platforms[ret.index]
  IN /\ Running /\ ret.phase = "submit"
     /\ ret' = IF submitCode # 0
               THEN [ret EXCEPT !.status = "failed",
                                !.log = Append(@, Event("submit failed", platform))]
               ELSE Advanced([ret EXCEPT !.log =
                                Append(@, Event("submitted", platform))])
     /\ UNCHANGED <<appJson, packageJson, deploymentsFile, data, now>>

----------------------------------------------------------------------------
(* init command: the action's guard, then runQuickInit, runWizardInit or the
   plain flow, each constructing a tracker and initializing it when no
   document exists *)

InitFlows == {"quick", "wizard", "plain"}

\* the init command calling initialize() whenever --force is given
initCommandForcing(i, flow, configured, force) ==
  LET result == [op |-> "init", tracker |-> i, flow |-> flow,
                 configured |-> configured, force |-> force,
                 preFile |-> deploymentsFile]
  IN /\ IF configured /\ ~force
        THEN /\ ret' = result @@ [status |-> "already initialized",
                                  initialized |-> FALSE]
             /\ UNCHANGED <<data, deploymentsFile>>
        ELSE IF ~fileExists(deploymentsFile) \/ force
        THEN /\ data' = [data EXCEPT ![i] =
                           [live |-> TRUE, hist |-> createEmptyDeploymentHistory]]
             /\ deploymentsFile' = writeJsonFile(createEmptyDeploymentHistory)
             /\ ret' = result @@ [status |-> "ok", initialized |-> TRUE]
        ELSE /\ data' = [data EXCEPT ![i] = [live |-> TRUE, hist |-> load]]
             /\ deploymentsFile' = deploymentsFile
             /\ ret' = result @@ [status |-> "ok", initialized |-> FALSE]
     /\ UNCHANGED <<appJson, packageJson, now>>

\* `configured` is isInitialized(cwd): a shipkit configuration file exists
initCommand(i, flow, configured, force) ==
  LET result == [op |-> "init", tracker |-> i, flow |-> flow,
                 configured |-> configured, force |-> force,
                 preFile |-> deploymentsFile]
  IN /\ IF configured /\ ~force
        THEN /\ ret' = result @@ [status |-> "already initialized",
                                  initialized |-> FALSE]
             /\ UNCHANGED <<data, deploymentsFile>>
        ELSE IF ~fileExists(deploymentsFile)
        THEN /\ data' = [data EXCEPT ![i] =
                           [live |-> TRUE, hist |-> createEmptyDeploymentHistory]]
             /\ deploymentsFile' = writeJsonFile(createEmptyDeploymentHistory)
             /\ ret' = result @@ [status |-> "ok", initialized |-> TRUE]
        ELSE /\ data' = [data EXCEPT ![i] = [live |-> TRUE, hist |-> load]]
             /\ deploymentsFile' = deploymentsFile
             /\ ret' = result @@ [status |-> "ok", initialized |-> FALSE]
     /\ UNCHANGED <<appJson, packageJson, now>>

----------------------------------------------------------------------------
(* Specifications *)

NoCall == [op |-> "none", status |-> "ok"]

\* the manifests of the version tests: both hold version 1.0.0
DefaultAppJson == AppDoc(TRUE, TRUE, <<"1", ".", "0", ".", "0">>)

DefaultPackageJson == PkgDoc(TRUE, <<"1", ".", "0", ".", "0">>)

\* the documents .deployments.json may hold before the first construction:
\* none, an unparsable one, the empty history, and parsable documents that
\* lack `versions`, `lastConfig` or both
InitialDeploymentsFiles ==
  {NoFile, BadFile, writeJsonFile(createEmptyDeploymentHistory)}
  \cup {writeJsonFile(History(hv, <<>>, hc,
                              [p \in Platforms |-> [k \in {} |-> "24"]])) :
          hv \in BOOLEAN, hc \in BOOLEAN}

\* One ledger instance over .deployments.json
Init ==
  /\ appJson = DefaultAppJson
  /\ packageJson = DefaultPackageJson
  /\ deploymentsFile \in InitialDeploymentsFiles
  /\ data = [i \in Trackers |-> NotLive]
  /\ now = 1
  /\ ret = NoCall

LedgerCall(i) ==
  \/ Construct(i)
  \/ initialize(i)
  \/ \E v \in VersionKeys, p \in Platforms, f \in Profiles :
       updateStatus(i, v, p, f)
  \/ \E p \in Platforms, c \in Snapshots : updateLastConfig(i, p, c)
  \/ \E v \in VersionKeys : getVersionStatus(i, v)
  \/ \E v \in VersionKeys, f \in Profiles : getMissingPlatforms(i, v, f)
  \/ \E p \in Platforms : getLastConfig(i, p)
  \/ exists(i)
  \/ saveInterrupted(i)

Next == LedgerCall(1)

Spec == Init /\ [][Next]_vars

\* One ledger instance recording deployments and asked for sync warnings
SyncNext ==
  \/ Construct(1)
  \/ initialize(1)
  \/ \E v \in VersionKeys, p \in Platforms, f \in Profiles :
       updateStatus(1, v, p, f)
  \/ \E v \in VersionKeys, p \in Platforms, f \in Profiles :
       checkSyncWarnings(1, v, p, f)

SyncSpec == Init /\ [][SyncNext]_vars

\* Two ledger instances (two processes) over the same .deployments.json,
\* each constructing, initializing and recording deployments
TwoInit ==
  /\ appJson = DefaultAppJson
  /\ packageJson = DefaultPackageJson
  /\ deploymentsFile \in {NoFile, writeJsonFile(createEmptyDeploymentHistory)}
  /\ data = [i \in Trackers |-> NotLive]
  /\ now = 1
  /\ ret = NoCall

TwoCall(i) ==
  \/ Construct(i)
  \/ initialize(i)
  \/ \E v \in VersionKeys, p \in Platforms, f \in Profiles :
       updateStatus(i, v, p, f)

TwoNext == \E i \in Trackers : TwoCall(i)

TwoSpec == TwoInit /\ [][TwoNext]_vars

\* One ledger instance recording versions and listing them
ListKeys ==
  {<<"1", ".", "0", ".", "0">>, <<"2", ".", "0", ".", "0">>,
   <<"1", ".", "5", ".", "0">>, <<"1", "0", ".", "0", ".", "0">>,
   <<"1", ".", "0">>}

ListInit ==
  /\ appJson = DefaultAppJson
  /\ packageJson = DefaultPackageJson
  /\ deploymentsFile = NoFile
  /\ data = [i \in Trackers |-> NotLive]
  /\ now = 0
  /\ ret = NoCall

ListNext ==
  \/ Construct(1)
  \/ \E v \in ListKeys : updateStatus(1, v, "ios", "preview")
  \/ getAllVersions(1)

ListSpec == ListInit /\ [][ListNext]_vars

\* One ledger instance and the config detector over app.json
AndroidSections ==
  {<<Pair("minSdkVersion", "24"), Pair("targetSdkVersion", "35")>>,
   <<Pair("targetSdkVersion", "35"), Pair("minSdkVersion", "24")>>,
   <<Pair("minSdkVersion", "35"), Pair("buildToolsVersion", "34.0.0")>>,
   <<Pair("minSdkVersion", "24"),
     Pair("extraMavenRepos", "[\"https://maven.example\"]")>>}

IosSection == <<Pair("deploymentTarget", "15.1")>>

DriftAppJsons ==
  {NoFile, AppDoc(FALSE, FALSE, ZeroVersion), DefaultAppJson,
   WithPlugin(TRUE, [p \in {} |-> <<>>]),
   WithPlugin(FALSE, [p \in {"ios"} |-> IosSection])}
  \cup {WithPlugin(FALSE, [p \in Platforms |->
                             IF p = "android" THEN a ELSE IosSection]) :
          a \in AndroidSections}

KeyLists ==
  {Undefined,
   Given(<<"targetSdkVersion", "minSdkVersion">>),
   Given(<<"minSdkVersion", "minSdkVersion">>),
   Given(<<"extraMavenRepos", "minSdkVersion">>)}

DriftInit ==
  /\ appJson \in DriftAppJsons
  /\ packageJson = DefaultPackageJson
  /\ deploymentsFile = NoFile
  /\ data = [i \in Trackers |-> NotLive]
  /\ now = MaxClock
  /\ ret = NoCall

DriftNext ==
  \/ Construct(1)
  \/ initialize(1)
  \/ updateStatus(1, <<"1", ".", "0", ".", "0">>, "android", "preview")
  \/ \E p \in Platforms, c \in Snapshots : updateLastConfig(1, p, c)
  \/ \E p \in Platforms : getLastConfig(1, p)
  \/ \E p \in Platforms, k \in KeyLists : readCurrentPlatformConfig(p, k)
  \/ \E p \in Platforms, k \in KeyLists : detectConfigChanges(1, p, k)
  \/ \E p \in Platforms, k \in KeyLists : hasConfigChanged(1, p, k)
  \/ \E p \in Platforms, k \in KeyLists : updateTrackedConfig(1, p, k)

DriftSpec == DriftInit /\ [][DriftNext]_vars

\* Runs of the deploy command over an initialized project
PlatformChoices == {<<"ios", "android">>, <<"ios">>, <<"android">>}

DeployActions == {"build", "build+submit", "submit"}

ExitCodes == {0, 1}

DeployInit ==
  /\ appJson \in
       {AppDoc(FALSE, FALSE, ZeroVersion),
        WithPlugin(FALSE, [p \in Platforms |->
                             IF p = "android"
                             THEN <<Pair("minSdkVersion", "24"),
                                    Pair("targetSdkVersion", "35")>>
                             ELSE IosSection])}
  /\ packageJson = DefaultPackageJson
  /\ deploymentsFile = writeJsonFile(createEmptyDeploymentHistory)
  /\ data = [i \in Trackers |-> NotLive]
  /\ now = 1
  /\ ret = NoCall

DeployNext ==
  \/ \E b \in {"none", "patch"}, l \in PlatformChoices, f \in Profiles,
        a \in DeployActions : deployStart(1, b, l, f, a)
  \/ \E c \in ExitCodes : deployBuild(c)
  \/ \E c \in ExitCodes : deploySubmit(c)

DeploySpec == DeployInit /\ [][DeployNext]_vars

\* The init command run over projects with and without a ledger document
InitCommandNext ==
  \/ Construct(1)
  \/ \E v \in VersionKeys, p \in Platforms : updateStatus(1, v, p, "preview")
  \/ \E p \in Platforms, c \in Snapshots : updateLastConfig(1, p, c)
  \/ saveInterrupted(1)
  \/ \E flow \in InitFlows, configured \in BOOLEAN, force \in BOOLEAN :
       initCommand(1, flow, configured, force)

InitCommandSpec == Init /\ [][InitCommandNext]_vars

\* The version engine over app.json and package.json
InitialVersions ==
  {<<"1", ".", "0", ".", "0">>, <<"1", ".", "2">>, <<"0", "1", ".", "2", ".", "1">>,
   <<"a", ".", "1", ".", "0">>}

InitialAppJsons ==
  {NoFile, BadFile, AppDoc(FALSE, FALSE, ZeroVersion),
   AppDoc(TRUE, FALSE, ZeroVersion)}
  \cup {AppDoc(TRUE, TRUE, v) : v \in InitialVersions}

InitialPackageJsons ==
  {NoFile, BadFile, PkgDoc(FALSE, ZeroVersion)}
  \cup {PkgDoc(TRUE, v) : v \in InitialVersions}

\* the strings callers pass to setVersion
SetVersionInputs ==
  {<<"1", ".", "0", ".", "0">>, <<"2", ".", "5", ".", "0">>,
   <<"1", ".", "0">>, <<"1", ".", "0", ".", "0", ".", "0">>,
   <<"a", "b", "c">>, <<"a", "1", ".", "0", ".", "0">>,
   <<"1", ".", "0", ".", "0", "a">>, <<"1", ".", ".", "0">>, <<>>,
   <<"1", ".", "a", ".", "0">>, <<"0", "7", ".", "0", ".", "1">>}

VersionInit ==
  /\ appJson \in InitialAppJsons
  /\ packageJson \in InitialPackageJsons
  /\ deploymentsFile = NoFile
  /\ data = [i \in Trackers |-> NotLive]
  /\ now = 1
  /\ ret = NoCall

VersionNext ==
  \/ \E t \in BumpTypes : bump(t)
  \/ \E v \in SetVersionInputs : setVersion(v)

VersionSpec == VersionInit /\ [][VersionNext]_vars

\* The comparison functions over pairs of version strings
CompareInputs ==
  {<<"1", ".", "0", ".", "0">>, <<"2", ".", "0", ".", "0">>,
   <<"1", ".", "2">>, <<"1", ".", "2", ".", "0">>,
   <<"1", ".", "2", ".", "3">>, <<"1", ".", "2", ".", "3", ".", "4">>,
   <<"1", "0", ".", "0", ".", "0">>, <<"9", ".", "0", ".", "0">>,
   <<"a", ".", "1", ".", "0">>, <<>>}

CompareNext ==
  \/ \E a \in CompareInputs, b \in CompareInputs : CompareCall(a, b)
  \/ \E a \in CompareInputs, b \in CompareInputs : IsNewerCall(a, b)

CompareInit ==
  /\ appJson = DefaultAppJson
  /\ packageJson = DefaultPackageJson
  /\ deploymentsFile = NoFile
  /\ data = [i \in Trackers |-> NotLive]
  /\ now = 1
  /\ ret = NoCall

CompareSpec == CompareInit /\ [][CompareNext]_vars

----------------------------------------------------------------------------
(* Properties *)

Instants == {ISOString(t) : t \in 1..(MaxClock + 1)}

OtherTracker(i) == CHOOSE j \in Trackers : j # i

\* some (platform, profile) cell of the record got a timestamp
SomeCellSet(record) ==
  \E p \in Platforms, f \in Profiles : Cell(record, p, f) # Null

\* C1: in every ledger state reached from the initial documents by
\* construction, initialize, recordDeployment (updateStatus),
\* setConfigSnapshot (updateLastConfig) and queries, a version key is present
\* in `versions` if and only if one of its (platform, profile) cells holds a
\* non-null timestamp; this holds of every instance's history and of the
\* persisted document.
C1_VersionKeyIffRecorded ==
  LET ok(h) == \A v \in VersionKeys :
                 HasVersion(h, v) <=> SomeCellSet(StatusIn(h, v))
  IN /\ \A i \in Trackers : Live(i) => ok(Hist(i))
     /\ Readable(deploymentsFile) => ok(readJsonFile(deploymentsFile))

C1_Witness ==
  /\ ret.op = "getVersionStatus" /\ ret.status = "ok"
  /\ ~HasVersion(Hist(ret.tracker), ret.version)
  /\ \E v \in VersionKeys : HasVersion(Hist(ret.tracker), v)

\* C2: getMissingPlatforms(version, profile) contains platform P exactly
\* when the other platform has a non-null timestamp for (version, profile)
\* and P has none; so it never contains both platforms.
C2_MissingIsSyncDrift ==
  (ret.op = "getMissingPlatforms" /\ ret.status = "ok") =>
    LET status == StatusIn(Hist(ret.tracker), ret.version)
        has(P) == Cell(status, P, ret.profile) # Null
        listed(P) == \E k \in 1..Len(ret.value) : ret.value[k] = P
        other(P) == IF P = "ios" THEN "android" ELSE "ios"
    IN /\ \A P \in Platforms : listed(P) <=> (has(other(P)) /\ ~has(P))
       /\ Len(ret.value) <= 1

C2_Witness ==
  /\ ret.op = "getMissingPlatforms" /\ ret.status = "ok"
  /\ ret.value = <<"android">>
  /\ Cell(StatusIn(Hist(ret.tracker), ret.version), "ios", ret.profile) # Null

\* the case of C3: instance j has just recorded deployment B from the
\* history it held; the other instance holds that same history plus one
\* deployment A (another cell), and the document held the other instance's
\* history when j's call began
C3_Case(A) ==
  /\ ret.op = "updateStatus"
  /\ Live(OtherTracker(ret.tracker))
  /\ <<ret.version, ret.platform, ret.profile>> # A
  /\ ret.preHist.hasVersions
  /\ Cell(StatusIn(ret.preHist, A[1]), A[2], A[3]) = Null
  /\ \E t \in Instants :
       Hist(OtherTracker(ret.tracker)) = Recorded(ret.preHist, A[1], A[2], A[3], t)
  /\ ret.preFile = writeJsonFile(Hist(OtherTracker(ret.tracker)))

Cells == VersionKeys \X Platforms \X Profiles

\* C3: two ledger instances over one document do not merge their writes:
\* when both hold the same loaded history, instance 1 records A and
\* instance 2 then records B, neither call fails and the persisted document
\* is instance 2's history, with B and without A.
C3_LastWriterWins ==
  \A A \in Cells :
    C3_Case(A) =>
      /\ ret.status = "ok"
      /\ deploymentsFile = writeJsonFile(Hist(ret.tracker))
      /\ Cell(StatusIn(readJsonFile(deploymentsFile), ret.version),
              ret.platform, ret.profile) # Null
      /\ Cell(StatusIn(readJsonFile(deploymentsFile), A[1]), A[2], A[3]) = Null

C3_Witness == \E A \in Cells : C3_Case(A)

\* C4: when initialize, recordDeployment or setConfigSnapshot has returned,
\* the persisted document is the instance's whole in-memory history, so a
\* ledger constructed on it now loads that same history (and answers every
\* query alike); after recordDeployment the named cell is non-null and its
\* version is tracked.
C4_PersistedEqualsMemory ==
  (ret.op \in {"initialize", "updateStatus", "updateLastConfig"}
   /\ ret.status = "ok") =>
    /\ fileExists(deploymentsFile)
    /\ load = Hist(ret.tracker)
    /\ ret.op = "updateStatus" =>
         /\ HasVersion(Hist(ret.tracker), ret.version)
         /\ Cell(StatusIn(Hist(ret.tracker), ret.version),
                 ret.platform, ret.profile) = ret.at
         /\ ret.at # Null

C4_Witness ==
  /\ ret.op = "updateLastConfig" /\ ret.status = "ok"
  /\ DOMAIN ret.config # {}
  /\ \E v \in VersionKeys : HasVersion(Hist(ret.tracker), v)

\* C5: apart from setVersion rejecting a malformed version string, no
\* operation raises an error, whatever the backing files hold.
C5_OnlyInvalidFormatRaised ==
  \/ ret.status = "ok"
  \/ ret.op = "setVersion" /\ ret.status = "InvalidFormat"

\* both manifests parse and expose the same version field
Agree(app, pkg) ==
  /\ Readable(app) /\ app.hasExpo /\ app.hasVersion
  /\ Readable(pkg) /\ pkg.hasVersion
  /\ app.version = pkg.version

\* a bump other than none, or a setVersion, that returned
Wrote ==
  /\ ret.op \in {"bump", "setVersion"}
  /\ ret.status = "ok"
  /\ ret.op = "bump" => ret.type # "none"

\* C6: after a bump other than none or a successful setVersion with both
\* manifests readable, both version fields equal the returned new version;
\* and manifests whose version fields agreed before a bump or setVersion
\* call agree after it.
C6_ManifestsInSync ==
  /\ (Wrote /\ Readable(ret.preApp) /\ Readable(ret.prePkg)) =>
       /\ Agree(appJson, packageJson)
       /\ appJson.version = ret.newVersion
  /\ (ret.op \in {"bump", "setVersion"} /\ Agree(ret.preApp, ret.prePkg)) =>
       Agree(appJson, packageJson)

C6_Witness ==
  /\ Wrote /\ Readable(ret.preApp) /\ Readable(ret.prePkg)
  /\ ~Agree(ret.preApp, ret.prePkg)
  /\ ret.op = "bump"

Numeric(version) == \A i \in 1..3 : ~parseVersion(version)[i].nan

Triple(version) == [i \in 1..3 |-> parseVersion(version)[i].n]

\* C7: for a current version (M, m, p), bump returns as old version the
\* version read before the bump, and as new version (M, m, p+1) for patch,
\* (M, m+1, 0) for minor and (M+1, 0, 0) for major, written as three
\* dot-separated integers.
C7_BumpArithmetic ==
  (ret.op = "bump" /\ ret.type # "none" /\ ret.status = "ok") =>
    /\ ret.oldVersion = VersionIn(ret.preApp)
    /\ Numeric(ret.oldVersion) =>
         LET old == Triple(ret.oldVersion)
         IN /\ MatchesXYZ(ret.newVersion)
            /\ Triple(ret.newVersion) =
                 CASE ret.type = "patch" -> <<old[1], old[2], old[3] + 1>>
                   [] ret.type = "minor" -> <<old[1], old[2] + 1, 0>>
                   [] ret.type = "major" -> <<old[1] + 1, 0, 0>>

C7_Witness ==
  /\ ret.op = "bump" /\ ret.type = "minor" /\ ret.status = "ok"
  /\ Numeric(ret.oldVersion)
  /\ Triple(ret.oldVersion)[3] > 0

\* C8: bump('none') writes nothing: it returns old = new = the current
\* version and leaves both manifests as they were.
C8_BumpNoneWritesNothing ==
  (ret.op = "bump" /\ ret.type = "none") =>
    /\ ret.status = "ok"
    /\ ret.oldVersion = ret.newVersion
    /\ ret.newVersion = VersionIn(appJson)
    /\ appJson = ret.preApp
    /\ packageJson = ret.prePkg

C8_Witness ==
  /\ ret.op = "bump" /\ ret.type = "none"
  /\ Readable(appJson) /\ Readable(packageJson)
  /\ ~Agree(appJson, packageJson)

\* the last two calls were bump('patch'), both returned, and app.json was
\* readable with its expo object
C9_Case ==
  /\ ret.op = "bump" /\ ret.type = "patch" /\ ret.status = "ok"
  /\ ret.prev.op = "bump" /\ ret.prev.type = "patch" /\ ret.prev.status = "ok"
  /\ Readable(ret.preApp)
  /\ Numeric(ret.prev.oldVersion)

\* C9: two consecutive patch bumps through a readable app.json add exactly
\* 2 to patch: from (M, m, p) the second bump returns (M, m, p+2), and that
\* is the version the manifests hold.
C9_TwoPatchBumps ==
  C9_Case =>
    LET v == Triple(ret.prev.oldVersion)
    IN /\ Triple(ret.newVersion) = <<v[1], v[2], v[3] + 2>>
       /\ MatchesXYZ(ret.newVersion)
       /\ VersionIn(appJson) = ret.newVersion
       /\ Readable(packageJson) => packageJson.version = ret.newVersion

C9_Witness == C9_Case /\ Readable(packageJson)

\* exactly three non-empty runs of digits separated by two dots
ThreeIntegers(s) ==
  LET dots == {k \in 1..Len(s) : s[k] = "."}
  IN /\ Cardinality(dots) = 2
     /\ \A k \in (1..Len(s)) \ dots : IsDigit(s[k])
     /\ Len(s) >= 1 /\ 1 \notin dots /\ Len(s) \notin dots
     /\ \A k \in dots : k + 1 \notin dots

\* C10: setVersion fails with the invalid-format error exactly when its
\* argument is not three dot-separated non-negative integers, and then
\* neither manifest is modified.
C10_SetVersionValidation ==
  ret.op = "setVersion" =>
    /\ ret.status = "InvalidFormat" <=> ~ThreeIntegers(ret.version)
    /\ ret.status = "InvalidFormat" =>
         appJson = ret.preApp /\ packageJson = ret.prePkg

C10_Witness ==
  /\ ret.op = "setVersion" /\ ret.status = "InvalidFormat"
  /\ Len(SplitDot(ret.version)) > 3
  /\ Readable(appJson)

\* exactly one of the two manifests failed to parse when the call began
OneUnreadable ==
  Readable(ret.preApp) # Readable(ret.prePkg)

\* C11: when exactly one manifest is unreadable during a bump other than
\* none, bump raises nothing and returns the computed new version, the
\* readable manifest holds that version afterwards and the unreadable one is
\* left as it was.
C11_OneManifestSkipped ==
  (ret.op = "bump" /\ ret.type # "none" /\ OneUnreadable) =>
    /\ ret.status = "ok"
    /\ ret.newVersion = calculateNewVersion(VersionIn(ret.preApp), ret.type)
    /\ IF Readable(ret.preApp)
       THEN VersionIn(appJson) = ret.newVersion /\ packageJson = ret.prePkg
       ELSE /\ Readable(packageJson) /\ packageJson.hasVersion
            /\ packageJson.version = ret.newVersion
            /\ appJson = ret.preApp

\* C12: every version string bump or setVersion writes to a manifest is
\* exactly three dot-separated non-negative integers, whatever app.json held
\* before the call.
C12_WrittenVersionsWellFormed ==
  Wrote =>
    /\ Readable(ret.preApp) => ThreeIntegers(appJson.version)
    /\ Readable(ret.prePkg) => ThreeIntegers(packageJson.version)

\* the order of two triples of integers: first differing component decides
LexOrder(x, y) ==
  IF x = y THEN 0
  ELSE LET i == CHOOSE k \in 1..3 : x[k] # y[k] /\ \A j \in 1..(k - 1) : x[j] = y[j]
       IN IF x[i] < y[i] THEN -1 ELSE 1

\* C13: compareVersions(a, b) is -1, 0 or 1 by the lexicographic order of
\* the numeric (major, minor, patch) of a and b, a missing component
\* counting as 0; isNewerVersion(a, b) holds exactly when compareVersions
\* gives 1.
C13_CompareIsLexicographic ==
  /\ ret.op = "compareVersions" =>
       /\ ret.value \in {-1, 0, 1}
       /\ (Numeric(ret.a) /\ Numeric(ret.b)) =>
            ret.value = LexOrder(Triple(ret.a), Triple(ret.b))
  /\ ret.op = "isNewerVersion" =>
       ret.value = (compareVersions(ret.a, ret.b) = 1)

C13_Witness ==
  /\ ret.op = "compareVersions"
  /\ ret.a = <<"1", ".", "2">> /\ ret.b = <<"1", ".", "2", ".", "0">>
  /\ ret.value = 0

\* C14: compareVersions(v, v) is 0, and compareVersions(a, b) is the
\* negation of compareVersions(b, a), for all version strings.
C14_CompareAntisymmetric ==
  ret.op = "compareVersions" =>
    /\ ret.a = ret.b => ret.value = 0
    /\ ret.value = -compareVersions(ret.b, ret.a)

C14_Witness ==
  /\ ret.op = "compareVersions"
  /\ ~Numeric(ret.a) /\ Numeric(ret.b)
  /\ ret.value = 1

\* the orders in which the keys of `keys` can have been recorded
Orders(keys) ==
  LET n == Len(keys)
  IN {[k \in 1..n |-> keys[f[k]]] :
        f \in {g \in [1..n -> 1..n] : \A x, y \in 1..n : x # y => g[x] # g[y]}}

\* position of a key in a duplicate-free list
Position(list, key) == CHOOSE k \in 1..Len(list) : list[k] = key

\* each key of `keys` is in `list` exactly once, and nothing else is
ListsEachOnce(list, keys) ==
  /\ Len(list) = Len(keys)
  /\ \A k \in 1..Len(keys) :
       Cardinality({j \in 1..Len(list) : list[j] = keys[k]}) = 1

Descending(list) ==
  \A k \in 1..(Len(list) - 1) : compareVersions(list[k], list[k + 1]) >= 0

\* two tracked strings that differ and compare equal
HasTie(keys) ==
  \E x, y \in 1..Len(keys) : x # y /\ compareVersions(keys[x], keys[y]) = 0

Emitted(warnings, w) == \E k \in 1..Len(warnings) : warnings[k] = w

InList(list, x) == \E k \in 1..Len(list) : list[k] = x

\* C16 as stated, in the one state where both conditions of checkSyncWarnings
\* could hold together: when the sibling platform and this platform both have
\* a timestamp for (version, profile), a single checkSyncWarnings call returns
\* both warnings at once, the sibling warning and the re-deployment warning.
C16_BothWarningsAtOnce ==
  (ret.op = "checkSyncWarnings" /\ ret.status = "ok") =>
    LET status == StatusIn(Hist(ret.tracker), ret.version)
        other == Cell(status, OtherPlatform(ret.platform), ret.profile)
        this == Cell(status, ret.platform, ret.profile)
    IN (other # Null /\ this # Null) =>
         /\ Emitted(ret.value, Warning("was deployed on", other,
                                       OtherPlatform(ret.platform), ret.profile))
         /\ Emitted(ret.value, Warning("already deployed on", this,
                                       ret.platform, ret.profile))

\* C16 amended: no checkSyncWarnings call returns both warnings: a call
\* returns at most one warning, and when the sibling platform and this
\* platform both have a timestamp for (version, profile) it returns the
\* re-deployment warning alone.
C16_AtMostOneWarning ==
  (ret.op = "checkSyncWarnings" /\ ret.status = "ok") =>
    LET status == StatusIn(Hist(ret.tracker), ret.version)
        other == Cell(status, OtherPlatform(ret.platform), ret.profile)
        this == Cell(status, ret.platform, ret.profile)
    IN /\ Len(ret.value) <= 1
       /\ (other # Null /\ this # Null) =>
            ret.value = <<Warning("already deployed on", this,
                                  ret.platform, ret.profile)>>

C16_Witness ==
  /\ ret.op = "checkSyncWarnings" /\ ret.status = "ok"
  /\ Cell(StatusIn(Hist(ret.tracker), ret.version),
          OtherPlatform(ret.platform), ret.profile) # Null
  /\ Cell(StatusIn(Hist(ret.tracker), ret.version),
          ret.platform, ret.profile) # Null
  /\ Len(ret.value) = 1

\* C17: checkSyncWarnings(version, platform, profile) returns the sibling
\* warning exactly when the other platform has a timestamp for
\* (version, profile) and this platform has none, which is exactly when this
\* platform is in getMissingPlatforms(version, profile); it returns the
\* re-deployment warning exactly when (version, platform, profile) has a
\* timestamp; it returns nothing else, and nothing at all for a version with
\* no deployments.
C17_WarningConditions ==
  (ret.op = "checkSyncWarnings" /\ ret.status = "ok") =>
    LET h == Hist(ret.tracker)
        status == StatusIn(h, ret.version)
        other == Cell(status, OtherPlatform(ret.platform), ret.profile)
        this == Cell(status, ret.platform, ret.profile)
        sibling == Warning("was deployed on", other,
                           OtherPlatform(ret.platform), ret.profile)
        again == Warning("already deployed on", this, ret.platform, ret.profile)
    IN /\ Emitted(ret.value, sibling) <=> (other # Null /\ this = Null)
       /\ Emitted(ret.value, sibling) <=>
            InList(MissingIn(h, ret.version, ret.profile), ret.platform)
       /\ Emitted(ret.value, again) <=> this # Null
       /\ \A k \in 1..Len(ret.value) : ret.value[k] \in {sibling, again}
       /\ ~SomeCellSet(status) => ret.value = <<>>

\* android preview asked about after only ios preview was deployed
C17_Witness ==
  /\ ret.op = "checkSyncWarnings" /\ ret.status = "ok"
  /\ ret.platform = "android"
  /\ Len(ret.value) = 1 /\ ret.value[1].platform = "ios"
  /\ MissingIn(Hist(ret.tracker), ret.version, ret.profile) = <<"android">>

NoSnapshot == [k \in {} |-> "24"]

\* the history answers every query as the empty ledger does
AnswersAsEmpty(h) ==
  /\ h.hasVersions
  /\ AllVersionsIn(h) = <<>>
  /\ \A v \in VersionKeys : StatusIn(h, v) = createEmptyDeploymentRecord
  /\ \A v \in VersionKeys, p \in Platforms, f \in Profiles :
       Cell(StatusIn(h, v), p, f) = Null
  /\ \A p \in Platforms : LastConfigIn(h, p) = NoSnapshot

\* C18: after initialize(), whatever the instance held and whatever the
\* document was: the document exists and is the empty history, getAllVersions
\* is empty, getVersionStatus(v) is the all-null record for every v, and
\* getLastConfig is the empty map for both platforms.
C18_InitializeResets ==
  ret.op = "initialize" =>
    /\ ret.status = "ok"
    /\ fileExists(deploymentsFile)
    /\ deploymentsFile = writeJsonFile(createEmptyDeploymentHistory)
    /\ AnswersAsEmpty(Hist(ret.tracker))

\* initialize() on an instance that tracked a version and held a snapshot
C18_Witness ==
  /\ ret.op = "initialize"
  /\ Len(ret.preHist.versions) > 0
  /\ \E p \in Platforms : LastConfigIn(ret.preHist, p) # NoSnapshot
  /\ fileExists(ret.preFile)

\* C19: getVersionStatus(version) returns the stored record of a tracked
\* version and an all-null record for an untracked one, and changes nothing:
\* the instance's history (so the tracked versions and getAllVersions) and
\* the persisted document are what they were before the call.
C19_GetVersionStatusPure ==
  (ret.op = "getVersionStatus" /\ ret.status = "ok") =>
    LET h == Hist(ret.tracker)
    IN /\ HasVersion(ret.preHist, ret.version) =>
            ret.value = ret.preHist.versions[IndexOf(ret.preHist, ret.version)].record
       /\ ~HasVersion(ret.preHist, ret.version) =>
            /\ \A p \in Platforms, f \in Profiles : Cell(ret.value, p, f) = Null
            /\ ~HasVersion(h, ret.version)
       /\ h = ret.preHist
       /\ AllVersionsIn(h) = AllVersionsIn(ret.preHist)
       /\ deploymentsFile = ret.preFile

\* an untracked version asked of a ledger that tracks another one
C19_Witness ==
  /\ ret.op = "getVersionStatus" /\ ret.status = "ok"
  /\ ~HasVersion(ret.preHist, ret.version)
  /\ Len(ret.preHist.versions) > 0
  /\ ret.value = createEmptyDeploymentRecord

\* a construction that found the document missing or unparsable
FellBack == ret.op = "new" /\ ~Readable(ret.preFile)

\* C20: a construction that finds the document missing or unparsable, also
\* one left unparsable by an interrupted save, does not fail and holds the
\* empty history: no version and no snapshot of the lost document is left;
\* the call made next on the instance succeeds, and a mutation made next
\* leaves a parsable document.
C20_FallBackToEmptyHistory ==
  /\ [](FellBack =>
          /\ ret.status = "ok"
          /\ Live(ret.tracker)
          /\ Hist(ret.tracker) = createEmptyDeploymentHistory
          /\ AnswersAsEmpty(Hist(ret.tracker)))
  /\ [][FellBack =>
          /\ ret'.op # "crash" => ret'.status = "ok"
          /\ ret'.op \in {"initialize", "updateStatus", "updateLastConfig"} =>
               Readable(deploymentsFile')]_vars

\* construction over the document an interrupted save left, after a history
\* with tracked versions
C20_Witness ==
  /\ FellBack
  /\ ret.preFile = BadFile
  /\ ret.prev.op = "crash" /\ ret.prev.tracked
  /\ Hist(ret.tracker) = createEmptyDeploymentHistory

\* instance i keeps, over the step, every version it tracks
KeepsVersions(i) ==
  \A k \in 1..Len(Hist(i).versions) :
    HasVersion(Hist(i)', Hist(i).versions[k].version)

\* C21 as stated: once a version is tracked by a ledger instance it stays
\* tracked: no operation on the instance removes a version record.
C21_VersionsNeverRemoved ==
  [][\A i \in Trackers : (Live(i) /\ Live(i)') => KeepsVersions(i)]_vars

\* C21 amended: a tracked version stays tracked in the instance and in the
\* persisted document under every ledger operation except initialize(),
\* which removes all version records.
C21_VersionsRemovedOnlyByInitialize ==
  [][\A i \in Trackers :
       (Live(i) /\ Live(i)') =>
         /\ ret'.op # "initialize" => KeepsVersions(i)
         /\ (ret'.op \in {"updateStatus", "updateLastConfig"}
             /\ ret'.status = "ok") =>
              /\ Readable(deploymentsFile')
              /\ \A k \in 1..Len(Hist(i).versions) :
                   HasVersion(readJsonFile(deploymentsFile'),
                              Hist(i).versions[k].version)
         /\ (ret'.op = "initialize") => Hist(i)'.versions = <<>>]_vars

\* a second version was recorded and the first is still tracked
C21_Witness ==
  /\ ret.op = "updateStatus" /\ ret.status = "ok"
  /\ \E v \in VersionKeys :
       /\ v # ret.version
       /\ HasVersion(ret.preHist, v)
       /\ HasVersion(Hist(ret.tracker), v)
  /\ ~HasVersion(ret.preHist, ret.version)

UpdateSnapshotCalls == {"updateLastConfig", "updateTrackedConfig"}

\* the stored snapshots of instance i, and of the document when it is
\* parsable before and after, are the same before and after the step
SnapshotsKept(i) ==
  /\ \A p \in Platforms :
       LastConfigIn(Hist(i)', p) = LastConfigIn(Hist(i), p)
  /\ (Readable(deploymentsFile) /\ Readable(deploymentsFile')) =>
       \A p \in Platforms :
         LastConfigIn(readJsonFile(deploymentsFile'), p) =
           LastConfigIn(readJsonFile(deploymentsFile), p)

\* C22 as stated: a platform's stored snapshot changes only through
\* updateLastConfig (setConfigSnapshot) or updateTrackedConfig
\* (commitSnapshot): every other operation of the ledger and of the detector
\* leaves both platforms' stored snapshots as they were.
C22_SnapshotChangedOnlyByUpdate ==
  [][(Live(1) /\ Live(1)' /\ ret'.op \notin UpdateSnapshotCalls) =>
       SnapshotsKept(1)]_vars

\* C22 amended: a platform's stored snapshot changes only through
\* updateLastConfig, updateTrackedConfig or initialize(); initialize() resets
\* both platforms' snapshots to the empty map; every other operation of the
\* ledger and of the detector leaves both stored snapshots as they were.
C22_SnapshotChangedByUpdateOrInitialize ==
  [][(Live(1) /\ Live(1)') =>
       /\ ret'.op \notin (UpdateSnapshotCalls \cup {"initialize"}) =>
            SnapshotsKept(1)
       /\ ret'.op = "initialize" =>
            \A p \in Platforms : LastConfigIn(Hist(1)', p) = EmptyMap]_vars

\* the detector reported drift against a stored snapshot and the snapshot is
\* still stored
C22_Witness ==
  /\ ret.op = "detectConfigChanges" /\ ret.status = "ok"
  /\ Len(ret.value) > 0
  /\ LastConfigIn(Hist(ret.tracker), ret.platform) # EmptyMap
  /\ LastConfigIn(Hist(ret.tracker), ret.platform) #
       CurrentConfigIn(appJson, ret.platform, ret.criticalKeys)

\* C23: updateLastConfig(platform, config) makes config the platform's whole
\* stored snapshot (no key of the previous snapshot survives unless config
\* has it) and persists the history; the other platform's snapshot and the
\* version records are unchanged; getLastConfig(platform) returns the stored
\* snapshot, which is the empty map when none was stored.
C23_SetSnapshotReplaces ==
  /\ (ret.op = "updateLastConfig" /\ ret.status = "ok") =>
       LET h == Hist(ret.tracker)
       IN /\ LastConfigIn(h, ret.platform) = ret.config
          /\ DOMAIN LastConfigIn(h, ret.platform) = DOMAIN ret.config
          /\ LastConfigIn(h, OtherPlatform(ret.platform)) =
               LastConfigIn(ret.preHist, OtherPlatform(ret.platform))
          /\ h.versions = ret.preHist.versions
          /\ Readable(deploymentsFile)
          /\ readJsonFile(deploymentsFile) = h
  /\ (ret.op = "getLastConfig" /\ ret.status = "ok") =>
       LET h == Hist(ret.tracker)
       IN /\ ret.value = h.lastConfig[ret.platform]
          /\ (h = createEmptyDeploymentHistory) => ret.value = EmptyMap

\* a one-key snapshot stored over a two-key one, with a version tracked
C23_Witness ==
  /\ ret.op = "updateLastConfig" /\ ret.status = "ok"
  /\ DOMAIN LastConfigIn(ret.preHist, ret.platform) = ConfigKeys
  /\ DOMAIN ret.config = {"minSdkVersion"}
  /\ LastConfigIn(ret.preHist, OtherPlatform(ret.platform)) # EmptyMap
  /\ Len(ret.preHist.versions) > 0

\* the value of a key on one side of the comparison, "unset" when absent
SideValue(config, key) == IF key \in DOMAIN config THEN config[key] ELSE Unset

\* the key is present on one side only, or on both with different values
ValuesDiffer(current, last, key) ==
  IF key \in DOMAIN current /\ key \in DOMAIN last
  THEN current[key] # last[key]
  ELSE key \in DOMAIN current \/ key \in DOMAIN last

\* the positions of `keys` whose key differs between the two sides
DifferingPositions(current, last, keys) ==
  {j \in 1..Len(keys) : ValuesDiffer(current, last, keys[j])}

\* the detector's inputs at the call held in ret
CurrentOfCall == CurrentConfigIn(appJson, ret.platform, ret.criticalKeys)

LastOfCall == LastConfigIn(Hist(ret.tracker), ret.platform)

KeysOfCall == KeysFor(ret.platform, ret.criticalKeys)

\* C24: detectConfigChanges returns one entry for each listed critical key
\* whose current value differs from the stored snapshot value or that is
\* present on one side only, and no entry for a key whose values are equal
\* or that is absent on both sides; each entry has the snapshot value as
\* `from` and the current value as `to`, with "unset" for an absent side;
\* hasConfigChanged is true exactly when that list is non-empty.
C24_ChangesAreTheDifferingKeys ==
  /\ (ret.op = "detectConfigChanges" /\ ret.status = "ok") =>
       /\ Len(ret.value) =
            Cardinality(DifferingPositions(CurrentOfCall, LastOfCall, KeysOfCall))
       /\ \A k \in 1..Len(ret.value) :
            /\ ValuesDiffer(CurrentOfCall, LastOfCall, ret.value[k].key)
            /\ InList(KeysOfCall, ret.value[k].key)
            /\ ret.value[k].from = SideValue(LastOfCall, ret.value[k].key)
            /\ ret.value[k].to = SideValue(CurrentOfCall, ret.value[k].key)
       /\ \A j \in DifferingPositions(CurrentOfCall, LastOfCall, KeysOfCall) :
            \E k \in 1..Len(ret.value) : ret.value[k].key = KeysOfCall[j]
  /\ (ret.op = "hasConfigChanged" /\ ret.status = "ok") =>
       ret.value = (ChangesIn(Hist(ret.tracker), appJson, ret.platform,
                              ret.criticalKeys) # <<>>)

\* list `sub` is `list` with some positions left out
Subsequence(sub, list) ==
  \E f \in [1..Len(sub) -> 1..Len(list)] :
    /\ \A k \in 1..Len(sub) : list[f[k]] = sub[k]
    /\ \A k \in 1..(Len(sub) - 1) : f[k] < f[k + 1]

\* app.json has a section for the platform
HasSection(file, platform) ==
  /\ Readable(file) /\ file.hasExpo /\ "plugin" \in DOMAIN file
  /\ platform \in DOMAIN file.plugin.sections

\* app.json with the platform's section in another key order
Reordered(file, platform, section) ==
  [file EXCEPT !.plugin.sections[platform] = section]

\* C25: the entries returned by detectConfigChanges are in the order of the
\* criticalKeys list given to it (their keys are a subsequence of it),
\* whatever the order in which app.json lists the keys of the platform's
\* section; the stored snapshot is read by key only.
C25_ChangesInCriticalKeysOrder ==
  (ret.op = "detectConfigChanges" /\ ret.status = "ok") =>
    /\ Subsequence([k \in 1..Len(ret.value) |-> ret.value[k].key], KeysOfCall)
    /\ HasSection(appJson, ret.platform) =>
         \A section \in Orders(appJson.plugin.sections[ret.platform]) :
           ChangesIn(Hist(ret.tracker),
                     Reordered(appJson, ret.platform, section),
                     ret.platform, ret.criticalKeys) = ret.value

\* targetSdkVersion is reported before minSdkVersion, as criticalKeys lists
\* them, although app.json lists minSdkVersion first
C25_Witness ==
  /\ ret.op = "detectConfigChanges" /\ ret.status = "ok"
  /\ Len(ret.value) = 2
  /\ ret.value[1].key = "targetSdkVersion"
  /\ ret.value[2].key = "minSdkVersion"
  /\ HasSection(appJson, ret.platform)
  /\ appJson.plugin.sections[ret.platform][1].key = "minSdkVersion"

\* the call in ret was made right after a successful updateTrackedConfig
\* with the same platform and criticalKeys
RightAfterCommit ==
  /\ ret.op \in {"detectConfigChanges", "hasConfigChanged"}
  /\ ret.status = "ok"
  /\ ret.prev.op = "updateTrackedConfig"
  /\ ret.prev.status = "ok"
  /\ ret.prev.platform = ret.platform
  /\ ret.prev.criticalKeys = ret.criticalKeys

\* C26: updateTrackedConfig (commitSnapshot) followed immediately by
\* detectConfigChanges with the same platform and criticalKeys, app.json
\* unchanged, returns no changes, and hasConfigChanged returns false.
C26_CommitThenDetectIsEmpty ==
  RightAfterCommit =>
    /\ ret.op = "detectConfigChanges" => ret.value = <<>>
    /\ ret.op = "hasConfigChanged" => ret.value = FALSE

\* the keys and values app.json lists for the platform, none when the
\* manifest, the plugin entry, its configuration or the section is absent
Configured(file, platform) ==
  IF HasSection(file, platform) /\ ~file.plugin.bare
  THEN {file.plugin.sections[platform][j] :
          j \in 1..Len(file.plugin.sections[platform])}
  ELSE {}

\* the map holds exactly the listed critical keys the platform's section
\* configures, with their configured values
IsCriticalPart(config, file, platform, criticalKeys) ==
  LET keys == KeysFor(platform, criticalKeys)
      wanted == {pair \in Configured(file, platform) : InList(keys, pair.key)}
  IN /\ DOMAIN config = {pair.key : pair \in wanted}
     /\ \A pair \in wanted : config[pair.key] = pair.value

\* C27: readCurrentPlatformConfig(platform, criticalKeys) returns exactly the
\* critical keys present in the platform's section of the build-properties
\* entry, each with its configured value: no other key, no critical key that
\* the section lacks, and the empty map when the manifest, the plugin entry
\* or the platform section is absent; updateTrackedConfig stores exactly
\* that map as the platform's snapshot.
C27_CurrentConfigIsCriticalPart ==
  /\ (ret.op = "readCurrentPlatformConfig") =>
       /\ ret.status = "ok"
       /\ IsCriticalPart(ret.value, appJson, ret.platform, ret.criticalKeys)
       /\ Configured(appJson, ret.platform) = {} => ret.value = EmptyMap
  /\ (ret.op = "updateTrackedConfig" /\ ret.status = "ok") =>
       /\ IsCriticalPart(LastConfigIn(Hist(ret.tracker), ret.platform),
                         appJson, ret.platform, ret.criticalKeys)
       /\ Readable(deploymentsFile)
       /\ IsCriticalPart(LastConfigIn(readJsonFile(deploymentsFile), ret.platform),
                         appJson, ret.platform, ret.criticalKeys)

\* the section configures buildToolsVersion, which is not critical, and
\* lacks the critical targetSdkVersion and compileSdkVersion
C27_Witness ==
  /\ ret.op = "readCurrentPlatformConfig"
  /\ ret.criticalKeys = Undefined
  /\ DOMAIN ret.value = {"minSdkVersion"}
  /\ \E pair \in Configured(appJson, ret.platform) :
       pair.key = "buildToolsVersion"

\* position of an event in the log of the run, 0 when it is not there
LogIndex(what, platform) ==
  IF \E k \in 1..Len(ret.log) : ret.log[k] = Event(what, platform)
  THEN CHOOSE k \in 1..Len(ret.log) : ret.log[k] = Event(what, platform)
  ELSE 0

\* the run changed the deployment cell, or the snapshot, of the platform
CellChanged(platform) ==
  Cell(StatusIn(Hist(ret.tracker), ret.targetVersion), platform, ret.profile) #
    Cell(StatusIn(ret.preHist, ret.targetVersion), platform, ret.profile)

SnapshotChanged(platform) ==
  LastConfigIn(Hist(ret.tracker), platform) # LastConfigIn(ret.preHist, platform)

\* C28: in a deploy run, a platform's deployment is recorded and its
\* snapshot committed only after that platform's build returned success,
\* the record before the commit; when a build fails, that platform and the
\* platforms later in the list have no deployment recorded and no snapshot
\* committed by the run, while the platforms built earlier in the run keep
\* their records; the persisted document is the instance's history.
C28_RecordOnlyAfterBuild ==
  ret.op = "deploy" =>
    /\ \A p \in Platforms :
         /\ (CellChanged(p) \/ SnapshotChanged(p)) =>
              LogIndex("build succeeded", p) > 0
         /\ LogIndex("recorded", p) > 0 =>
              /\ 0 < LogIndex("build succeeded", p)
              /\ LogIndex("build succeeded", p) < LogIndex("recorded", p)
              /\ LogIndex("recorded", p) < LogIndex("committed", p)
         /\ LogIndex("committed", p) > 0 => LogIndex("recorded", p) > 0
         /\ LogIndex("build succeeded", p) > 0 =>
              /\ CellChanged(p)
              /\ Cell(StatusIn(readJsonFile(deploymentsFile), ret.targetVersion),
                      p, ret.profile) # Null
              /\ LastConfigIn(Hist(ret.tracker), p) =
                   CurrentConfigIn(appJson, p, Undefined)
    /\ \A j \in 1..Len(ret.platforms) :
         LogIndex("build failed", ret.platforms[j]) > 0 =>
           /\ ret.status = "failed"
           /\ \A k \in j..Len(ret.platforms) :
                /\ ~CellChanged(ret.platforms[k])
                /\ ~SnapshotChanged(ret.platforms[k])
                /\ LogIndex("recorded", ret.platforms[k]) = 0
                /\ LogIndex("committed", ret.platforms[k]) = 0
           /\ \A k \in 1..(j - 1) :
                /\ CellChanged(ret.platforms[k])
                /\ Cell(StatusIn(Hist(ret.tracker), ret.targetVersion),
                        ret.platforms[k], ret.profile) # Null
    /\ ~ret.shouldBuild =>
         \A p \in Platforms : ~CellChanged(p) /\ ~SnapshotChanged(p)

\* ios was built and recorded, then the android build failed
C28_Witness ==
  /\ ret.op = "deploy" /\ ret.status = "failed"
  /\ ret.platforms = <<"ios", "android">>
  /\ LogIndex("build failed", "android") > 0
  /\ CellChanged("ios") /\ SnapshotChanged("ios")
  /\ ~CellChanged("android")

\* C29: the init command, in each of its flows and also with --force, calls
\* initialize() only when the ledger document does not exist: run on a
\* project whose document exists, it leaves the document, and so every
\* recorded deployment and snapshot, unchanged, and the instance it
\* constructed holds what the document holds.
C29_InitGuardsInitialize ==
  ret.op = "init" =>
    /\ ret.initialized =>
         /\ ~fileExists(ret.preFile)
         /\ deploymentsFile = writeJsonFile(createEmptyDeploymentHistory)
    /\ fileExists(ret.preFile) =>
         /\ deploymentsFile = ret.preFile
         /\ (ret.status = "ok" /\ Readable(ret.preFile)) =>
              Hist(ret.tracker) = readJsonFile(ret.preFile)
    /\ (ret.status = "ok" /\ ~fileExists(ret.preFile)) => ret.initialized

\* init --force on a configured project whose ledger tracks deployments and
\* a snapshot
C29_Witness ==
  /\ ret.op = "init" /\ ret.status = "ok"
  /\ ret.configured /\ ret.force
  /\ Readable(ret.preFile)
  /\ Len(readJsonFile(deploymentsFile).versions) > 0
  /\ \E p \in Platforms : LastConfigIn(readJsonFile(deploymentsFile), p) # EmptyMap

\* the timestamp of a (version, platform, profile) cell in a history
At(h, cell) == Cell(StatusIn(h, cell[1]), cell[2], cell[3])

\* C30: updateStatus(version, platform, profile) writes the one cell it
\* names: every other cell of that version, every other version's record
\* and both platforms' snapshots are what they were; and a cell that holds a
\* timestamp still holds one after any updateStatus or updateLastConfig
\* call.
C30_RecordTouchesOneCell ==
  /\ []((ret.op = "updateStatus" /\ ret.status = "ok") =>
          LET h == Hist(ret.tracker)
              named == <<ret.version, ret.platform, ret.profile>>
          IN /\ At(h, named) = ret.at
             /\ \A cell \in Cells :
                  cell # named => At(h, cell) = At(ret.preHist, cell)
             /\ \A v \in VersionKeys :
                  v # ret.version =>
                    (HasVersion(h, v) <=> HasVersion(ret.preHist, v))
             /\ \A p \in Platforms :
                  LastConfigIn(h, p) = LastConfigIn(ret.preHist, p)
             /\ h.lastConfig = ret.preHist.lastConfig)
  /\ [][(Live(1) /\ Live(1)'
         /\ ret'.op \in {"updateStatus", "updateLastConfig"}) =>
          \A cell \in Cells :
            At(Hist(1), cell) # Null => At(Hist(1)', cell) # Null]_vars

\* a second profile of a platform recorded while its first profile and a
\* snapshot were already stored
C30_Witness ==
  /\ ret.op = "updateStatus" /\ ret.status = "ok"
  /\ ret.profile = "production"
  /\ At(Hist(ret.tracker), <<ret.version, ret.platform, "preview">>) # Null
  /\ LastConfigIn(ret.preHist, ret.platform) # EmptyMap
  /\ At(ret.preHist, <<ret.version, ret.platform, "production">>) = Null

====
